---- MODULE Spec2Model ----
(***************************************************************************)
(* Authentication and account-verification state machine of the            *)
(* Portfolio-Backend service (backend/app/routers/auth.py,                  *)
(* backend/app/security.py).                                                *)
(*                                                                          *)
(* Time is counted in minutes.  The users table keeps its timestamps in     *)
(* Column(DateTime) columns (models.py:167-177, no timezone=True), so a     *)
(* value read back from the database is a naive datetime holding the UTC    *)
(* wall-clock time; handlers take the current time as the aware             *)
(* datetime.now(timezone.utc).  Comparing the two raises TypeError in       *)
(* Python; the handlers that convert first (verify_email,                   *)
(* confirm_password_reset, login_user) compare normally.  The server and    *)
(* the database session both run in UTC.                                    *)
(***************************************************************************)
EXTENDS Integers, Sequences, FiniteSets, TLC

----------------------------------------------------------------------------
(* Bounds of the model *)

MaxTime == 50
TickMinutes == 15
MaxUsers == 2
MaxFailed == 6
MaxIssued == 2
MaxRanks == 2
MaxLevel == 2
MaxComments == 2
MaxLikes == 1
MaxRequests == 2
MaxReceived == 3

----------------------------------------------------------------------------
(* Program constants *)

ACCESS_TOKEN_EXPIRE_MINUTES == 15
REFRESH_TOKEN_EXPIRE_DAYS == 7
LOCK_THRESHOLD == 5
LOCK_MINUTES == 30
VERIFICATION_EXPIRE_MINUTES == 15
PASSWORD_RESET_EXPIRE_MINUTES == 30
ACCOUNT_EXPIRE_DAYS == 1
MIN_PASSWORD_LENGTH == 8

MinutesPerDay == 24 * 60

----------------------------------------------------------------------------
(* Request inputs *)

Emails == {"alice@example.com"}
InvalidEmail == "not-an-email"
Usernames == {"alice"}
Passwords == {"Str0ng!Pass", "0ther!Pass1", "weakpass"}
Codes == {"111111", "222222"}
ResetTokens == {"rtok1", "rtok2"}

(* Python None in a nullable DateTime column *)
None == -1
(* Python None in a nullable String column *)
NoHash == <<>>
NoToken == <<>>
NoResetToken == ""
(* The result of a query's .first() that found no row *)
NoUser == [id |-> 0]

VARIABLES
    now,        \* the wall clock, minutes
    users,      \* the users table: id -> row
    nextId,     \* the users.id sequence
    issued,     \* the cookie pairs clients have kept (at most MaxIssued)
    rotated,    \* refresh tokens that /auth/refresh has exchanged for a new one
    consec,     \* per account: wrong-password logins since the last login attempt
                \* with the right password or password reset
    verifiedOnce, \* <<account id, code>> pairs that /auth/verify-email has accepted
    last,       \* the request answered at the current instant, and its response
    call,       \* a library function applied on its own: its arguments and result;
                \* or what an earlier request left for a later one to be held to
    inflight    \* the requests being handled at the same time: per request its
                \* position in the handler and the rows its session has loaded

vars == <<now, users, nextId, issued, rotated, consec, verifiedOnce, last, call, inflight>>

----------------------------------------------------------------------------
(* Credential store *)

\* per password: length and the character classes it contains
PasswordShape(p) ==
    CASE p = "Str0ng!Pass" -> [len |-> 11, upper |-> TRUE, lower |-> TRUE, digit |-> TRUE, special |-> TRUE]
      [] p = "0ther!Pass1" -> [len |-> 11, upper |-> TRUE, lower |-> TRUE, digit |-> TRUE, special |-> TRUE]
      [] OTHER             -> [len |-> 8, upper |-> FALSE, lower |-> TRUE, digit |-> FALSE, special |-> FALSE]

is_password_strong(p) ==
    LET s == PasswordShape(p) IN
    /\ s.len >= MIN_PASSWORD_LENGTH
    /\ s.upper
    /\ s.lower
    /\ s.digit
    /\ s.special

\* the addresses and names of a second person, for the requests that concern
\* two accounts
OtherEmails == {"bob@example.com"}
OtherUsernames == {"bob"}

is_email_valid(e) == e \in Emails \cup OtherEmails

\* bcrypt: the hash determines the plaintext it verifies; the salt plays no
\* part in verification
get_password_hash(p) == <<"bcrypt", p>>

\* a stored value that no scheme of the CryptContext identifies
MalformedHash == <<"not-a-hash">>

\* passlib's CryptContext.verify: False for a hash of None, UnknownHashError
\* (a ValueError) for a string that is no bcrypt hash, else the comparison
pwd_context_verify(secret, h) ==
    IF h = << >> THEN "False"
    ELSE IF Len(h) # 2 \/ h[1] # "bcrypt" THEN "UnknownHashError"
    ELSE IF h[2] = secret THEN "True"
    ELSE "False"

\* verify_password returns what pwd_context.verify returns and catches nothing:
\* verify_password is "it returned True", verify_password_raises "it raised"
verify_password(p, h) == pwd_context_verify(p, h) = "True"

verify_password_raises(p, h) == pwd_context_verify(p, h) \notin {"True", "False"}

hash_verification_code(c) == <<"bcrypt", c>>

\* try: return pwd_context.verify(...) except Exception: return False
verify_verification_code(c, h) == pwd_context_verify(c, h) = "True"

create_verification_token(e, c, t) == <<e, c, t + VERIFICATION_EXPIRE_MINUTES>>

----------------------------------------------------------------------------
(* Token issuer *)

\* jwt.encode(claims, SECRET_KEY, algorithm=ALGORITHM): sig names the key the
\* token is signed with
SECRET_KEY == "SECRET_KEY"

create_access_token(sub, t) ==
    [sub |-> sub, type |-> "access", iat |-> t, exp |-> t + ACCESS_TOKEN_EXPIRE_MINUTES,
     sig |-> SECRET_KEY]

\* "sub": str(user_id).  The random "jti" is left out: two refresh tokens issued
\* to one account in the same minute are not told apart
create_refresh_token(uid, t) ==
    [sub |-> ToString(uid), type |-> "refresh", iat |-> t,
     exp |-> t + REFRESH_TOKEN_EXPIRE_DAYS * MinutesPerDay, sig |-> SECRET_KEY]

\* a decoder that does not verify the signature
jwt_decode_unsigned(tok, t) ==
    IF tok.exp < t THEN "ExpiredSignatureError"
    ELSE "payload"

\* jose.jwt.decode: "JWTError" for a string that is no JWT or whose signature
\* does not verify under SECRET_KEY, "ExpiredSignatureError" for a passed exp,
\* else "payload"
jwt_decode(tok, t) ==
    IF tok.sig # SECRET_KEY THEN "JWTError"
    ELSE IF tok.exp < t THEN "ExpiredSignatureError"
    ELSE "payload"

\* except JWTError: ExpiredSignatureError and JWTClaimsError derive from it
IsJWTError(e) == e \in {"JWTError", "ExpiredSignatureError", "JWTClaimsError"}

\* a verification that does not compare the type claim
verify_token_untyped(tok, token_type, t) ==
    LET d == jwt_decode(tok, t) IN
    IF d # "payload" THEN (IF IsJWTError(d) THEN "None" ELSE "raise")
    ELSE IF tok.exp < t THEN "None"
    ELSE "payload"

\* "payload": the claims are returned; "None"; "raise": an exception leaves the
\* function
verify_token(tok, token_type, t) ==
    LET d == jwt_decode(tok, t) IN
    IF d # "payload" THEN (IF IsJWTError(d) THEN "None" ELSE "raise")
    ELSE IF tok.type # token_type THEN "None"
    ELSE IF tok.exp < t THEN "None"
    ELSE "payload"

NoCookies == <<>>
AuthCookies(u, t) == <<create_access_token(u.email, t), create_refresh_token(u.id, t)>>

----------------------------------------------------------------------------
(* The users table *)

Ids == 1..MaxUsers

get_user_by_email(e) ==
    IF \E i \in DOMAIN users : users[i].email = e
    THEN users[CHOOSE i \in DOMAIN users : users[i].email = e]
    ELSE NoUser

NewUser(id, username, email, password, code, t) ==
    [id |-> id,
     username |-> username,
     email |-> email,
     hashed_password |-> get_password_hash(password),
     is_active |-> FALSE,
     email_verified |-> FALSE,
     verification_code_hash |-> hash_verification_code(code),
     verification_token |-> create_verification_token(email, code, t),
     verification_expires_at |-> t + VERIFICATION_EXPIRE_MINUTES,
     failed_login_attempts |-> 0,
     account_locked_until |-> None,
     last_login |-> None,
     password_reset_token |-> NoResetToken,
     password_reset_expires_at |-> None,
     account_expires_at |-> t + ACCOUNT_EXPIRE_DAYS * MinutesPerDay]

Put(u) == [i \in (DOMAIN users) \cup {u.id} |-> IF i = u.id THEN u ELSE users[i]]

\* a registration that keeps the row when the email could not be sent
RollbackRegistration_missing(table, id) == table

\* register_user's compensation when the email could not be sent:
\* db.delete(db_user); db.commit()
RollbackRegistration(table, id) == [i \in (DOMAIN table) \ {id} |-> table[i]]

\* a request and its response.  arg: the credential presented (for register, the
\* password and the code generated); pre: the row found by email before the
\* request; ids: the ids of the rows before the request; replay: the credential
\* was already accepted by an earlier request
Respond(op, email, arg, status, code, pre, cookies) ==
    [op |-> op, email |-> email, arg |-> arg, at |-> now, status |-> status,
     code |-> code, pre |-> pre, cookies |-> cookies, replay |-> FALSE, message |-> "",
     ids |-> DOMAIN users]

Replayed(r, again) == [r EXCEPT !.replay = again]

\* the human-readable message of the response, where the model keeps it
Saying(r, msg) == [r EXCEPT !.message = msg]

\* no request is being answered
NoRequest ==
    [op |-> "none", email |-> "", arg |-> "", at |-> 0, status |-> 0,
     code |-> "", pre |-> NoUser, cookies |-> NoCookies, replay |-> FALSE, message |-> "",
     ids |-> {}]

\* no library function is being applied on its own
NoCall == [fn |-> "none"]

\* no requests are being handled at the same time
NoRequests == << >>

----------------------------------------------------------------------------
(* Account lockout guard *)

\* user.account_locked_until (read from the database: naive) compared with
\* datetime.now(timezone.utc) (aware): Python raises
\* "TypeError: can't compare offset-naive and offset-aware datetimes"
NaiveGreaterThanAware(stored, t) == "TypeError"

\* a lock that needs one failure more than the threshold
handle_failed_login_late(u, t) ==
    LET n == u.failed_login_attempts + 1 IN
    IF n > LOCK_THRESHOLD
    THEN [u EXCEPT !.failed_login_attempts = n, !.account_locked_until = t + LOCK_MINUTES]
    ELSE [u EXCEPT !.failed_login_attempts = n]

\* a lock that is set on the threshold failure only and never re-armed
handle_failed_login_once(u, t) ==
    LET n == u.failed_login_attempts + 1 IN
    IF n = LOCK_THRESHOLD
    THEN [u EXCEPT !.failed_login_attempts = n, !.account_locked_until = t + LOCK_MINUTES]
    ELSE [u EXCEPT !.failed_login_attempts = n]

\* a counter that starts again when the lock it led to has run out
handle_failed_login_fresh_after_expiry(u, t) ==
    LET n == IF u.account_locked_until # None /\ u.account_locked_until < t
             THEN 1
             ELSE u.failed_login_attempts + 1
    IN
    IF n >= LOCK_THRESHOLD
    THEN [u EXCEPT !.failed_login_attempts = n, !.account_locked_until = t + LOCK_MINUTES]
    ELSE [u EXCEPT !.failed_login_attempts = n]

handle_failed_login(u, t) ==
    LET n == u.failed_login_attempts + 1 IN
    IF n >= LOCK_THRESHOLD
    THEN [u EXCEPT !.failed_login_attempts = n, !.account_locked_until = t + LOCK_MINUTES]
    ELSE [u EXCEPT !.failed_login_attempts = n]

\* an authentication that looks at the lock before the password
authenticate_user_lock_first(u, password, t) ==
    IF u = NoUser THEN [result |-> "False", user |-> u]
    ELSE IF u.account_locked_until # None
                /\ NaiveGreaterThanAware(u.account_locked_until, t) = "TypeError"
         THEN [result |-> "TypeError", user |-> u]
    ELSE IF ~verify_password(password, u.hashed_password) THEN [result |-> "False", user |-> u]
    ELSE [result |-> "user",
          user |-> [u EXCEPT !.account_locked_until = None,
                             !.failed_login_attempts = 0,
                             !.last_login = t]]

\* result: "False", "UnknownHashError" (verify_password raised), "TypeError" (the
\* lock comparison raised) or "user"; user: the row as
\* committed by the call
authenticate_user(u, password, t) ==
    IF u = NoUser THEN [result |-> "False", user |-> u]
    ELSE IF verify_password_raises(password, u.hashed_password)
         THEN [result |-> "UnknownHashError", user |-> u]
    ELSE IF ~verify_password(password, u.hashed_password) THEN [result |-> "False", user |-> u]
    ELSE IF u.account_locked_until # None
                /\ NaiveGreaterThanAware(u.account_locked_until, t) = "TypeError"
         THEN [result |-> "TypeError", user |-> u]
    ELSE IF u.account_locked_until # None
                /\ NaiveGreaterThanAware(u.account_locked_until, t) = "True"
         THEN [result |-> "False", user |-> u]
    ELSE [result |-> "user",
          user |-> [u EXCEPT !.account_locked_until = None,
                             !.failed_login_attempts = 0,
                             !.last_login = t]]

\* a login that does not look at the activation flags
login_checks_no_activation(u, t) ==
    IF u.account_locked_until # None /\ u.account_locked_until > t
    THEN <<423, "ACCOUNT_LOCKED">>
    ELSE <<200, "LOGIN_SUCCESS">>

\* the checks of login_user on the row authenticate_user returned; the row's
\* account_locked_until is naive, so the current time is taken naive as well
login_checks(u, t) ==
    IF ~u.is_active THEN <<400, "ACCOUNT_NOT_ACTIVATED">>
    ELSE IF ~u.email_verified THEN <<400, "EMAIL_NOT_VERIFIED">>
    ELSE IF u.account_locked_until # None /\ u.account_locked_until > t
         THEN <<423, "ACCOUNT_LOCKED">>
    ELSE <<200, "LOGIN_SUCCESS">>

----------------------------------------------------------------------------
(* Verification code manager *)

\* a re-issue that extends the challenge without replacing the stored hash
IssueChallenge_keep_hash(u, email, code, t) ==
    [u EXCEPT !.verification_token = create_verification_token(email, code, t),
              !.verification_expires_at = t + VERIFICATION_EXPIRE_MINUTES]

IssueChallenge(u, email, code, t) ==
    [u EXCEPT !.verification_code_hash = hash_verification_code(code),
              !.verification_token = create_verification_token(email, code, t),
              !.verification_expires_at = t + VERIFICATION_EXPIRE_MINUTES]

\* a verification that never looks at the expiry of the challenge
verify_email_checks_no_expiry(u, code, t) ==
    IF u = NoUser THEN <<404, "USER_NOT_FOUND">>
    ELSE IF u.email_verified THEN <<400, "EMAIL_ALREADY_VERIFIED">>
    ELSE IF u.verification_code_hash = NoHash
              \/ ~verify_verification_code(code, u.verification_code_hash)
         THEN <<400, "INVALID_VERIFICATION_CODE">>
    ELSE <<200, "EMAIL_VERIFIED">>

\* the checks of verify_email, in the order of the code
verify_email_checks(u, code, t) ==
    IF u = NoUser THEN <<404, "USER_NOT_FOUND">>
    ELSE IF u.email_verified THEN <<400, "EMAIL_ALREADY_VERIFIED">>
    ELSE IF u.verification_expires_at = None THEN <<400, "VERIFICATION_CODE_EXPIRED">>
    ELSE IF u.verification_expires_at < t THEN <<400, "VERIFICATION_CODE_EXPIRED">>
    ELSE IF u.verification_code_hash = NoHash
              \/ ~verify_verification_code(code, u.verification_code_hash)
         THEN <<400, "INVALID_VERIFICATION_CODE">>
    ELSE <<200, "EMAIL_VERIFIED">>

\* an activation that sets is_active and nothing else
ActivateUser_active_only(u) == [u EXCEPT !.is_active = TRUE]

\* an activation that leaves the challenge on the row
ActivateUser_keep_challenge(u) ==
    [u EXCEPT !.email_verified = TRUE,
              !.is_active = TRUE]

ActivateUser(u) ==
    [u EXCEPT !.email_verified = TRUE,
              !.is_active = TRUE,
              !.verification_code_hash = NoHash,
              !.verification_token = NoToken,
              !.verification_expires_at = None]

IssueResetToken(u, rtok, t) ==
    [u EXCEPT !.password_reset_token = rtok,
              !.password_reset_expires_at = t + PASSWORD_RESET_EXPIRE_MINUTES]

\* a confirmation that does not compare the token presented with the stored one
confirm_reset_checks_any_token(u, rtok, new_password, t) ==
    IF u = NoUser THEN <<404, "USER_NOT_FOUND">>
    ELSE IF u.password_reset_token = NoResetToken
              \/ u.password_reset_expires_at = None
              \/ u.password_reset_expires_at < t
         THEN <<400, "INVALID_RESET_TOKEN">>
    ELSE IF ~is_password_strong(new_password) THEN <<400, "WEAK_PASSWORD">>
    ELSE <<200, "PASSWORD_RESET_SUCCESS">>

\* the checks of confirm_password_reset; the stored expiry is naive and is
\* compared with the naive datetime.now()
confirm_reset_checks(u, rtok, new_password, t) ==
    IF u = NoUser THEN <<404, "USER_NOT_FOUND">>
    ELSE IF u.password_reset_token = NoResetToken
              \/ u.password_reset_expires_at = None
              \/ u.password_reset_expires_at < t
              \/ u.password_reset_token # rtok
         THEN <<400, "INVALID_RESET_TOKEN">>
    ELSE IF ~is_password_strong(new_password) THEN <<400, "WEAK_PASSWORD">>
    ELSE <<200, "PASSWORD_RESET_SUCCESS">>

\* a reset that changes the password and leaves the token on the row
ResetPassword_keep_token(u, new_password) ==
    [u EXCEPT !.hashed_password = get_password_hash(new_password),
              !.failed_login_attempts = 0,
              !.account_locked_until = None]

ResetPassword(u, new_password) ==
    [u EXCEPT !.hashed_password = get_password_hash(new_password),
              !.password_reset_token = NoResetToken,
              !.password_reset_expires_at = None,
              !.failed_login_attempts = 0,
              !.account_locked_until = None]

\* db.query(User).filter(User.id == int(user_id)).first()
UserById(sub) ==
    IF \E i \in DOMAIN users : ToString(i) = sub
    THEN users[CHOOSE i \in DOMAIN users : ToString(i) = sub]
    ELSE NoUser

\* the checks of refresh_token on the cookie presented
refresh_checks(tok, t) ==
    IF tok.type = "absent" THEN <<401, "NO_REFRESH_TOKEN">>
    ELSE IF verify_token(tok, "refresh", t) = "raise" THEN <<500, "INTERNAL_SERVER_ERROR">>
    ELSE IF verify_token(tok, "refresh", t) = "None" THEN <<401, "INVALID_REFRESH_TOKEN">>
    ELSE IF UserById(tok.sub) = NoUser \/ ~UserById(tok.sub).is_active
         THEN <<401, "USER_NOT_FOUND">>
    ELSE <<200, "TOKEN_REFRESHED">>

----------------------------------------------------------------------------
Init ==
    /\ now = 0
    /\ users = << >>
    /\ nextId = 1
    /\ issued = {}
    /\ rotated = {}
    /\ consec = [i \in Ids |-> 0]
    /\ verifiedOnce = {}
    /\ last = NoRequest
    /\ call = NoCall
    /\ inflight = NoRequests

Tick ==
    /\ now + TickMinutes <= MaxTime
    /\ now' = now + TickMinutes
    /\ UNCHANGED <<users, nextId, issued, rotated, consec, verifiedOnce, last, call, inflight>>

\* the lifetime of a refresh token passes: every token issued so far has expired
WeekPasses ==
    /\ now <= MaxTime
    /\ now' = now + REFRESH_TOKEN_EXPIRE_DAYS * MinutesPerDay + 1
    /\ UNCHANGED <<users, nextId, issued, rotated, consec, verifiedOnce, last, call, inflight>>

\* a duplicate check that looks at the email only
RegisterMatches_email_only(username, email) ==
    {i \in DOMAIN users : users[i].email = email}

\* db.query(User).filter((User.email == email) | (User.username == username))
RegisterMatches(username, email) ==
    {i \in DOMAIN users : users[i].email = email \/ users[i].username = username}

\* POST /auth/register
Register(username, email, password, code, mailOk) ==
    LET matches == RegisterMatches(username, email) IN
    IF ~is_email_valid(email) THEN
        /\ last' = Respond("register", email, <<password, code>>, 400, "INVALID_EMAIL_FORMAT", NoUser, NoCookies)
        /\ UNCHANGED <<now, users, nextId, issued, rotated, consec, verifiedOnce>>
    ELSE IF ~is_password_strong(password) THEN
        /\ last' = Respond("register", email, <<password, code>>, 400, "WEAK_PASSWORD", NoUser, NoCookies)
        /\ UNCHANGED <<now, users, nextId, issued, rotated, consec, verifiedOnce>>
    ELSE IF matches # {} THEN
        \* .first() of a query without ORDER BY: any matching row
        \E i \in matches :
            LET existing == users[i] IN
            /\ IF existing.email = email
               THEN IF existing.email_verified
                    THEN /\ users' = users
                         /\ last' = Respond("register", email, <<password, code>>, 400, "EMAIL_EXISTS",
                                            existing, NoCookies)
                    ELSE /\ users' = Put(IssueChallenge(existing, email, code, now))
                         /\ last' = IF mailOk
                                    THEN Respond("register", email, <<password, code>>, 200,
                                                 "VERIFICATION_CODE_SENT", existing, NoCookies)
                                    ELSE Respond("register", email, <<password, code>>, 500,
                                                 "EMAIL_SEND_FAILED", existing, NoCookies)
               ELSE /\ users' = users
                    /\ last' = Respond("register", email, <<password, code>>, 400, "USERNAME_EXISTS",
                                       existing, NoCookies)
            /\ UNCHANGED <<now, nextId, issued, rotated, consec, verifiedOnce>>
    ELSE
        /\ nextId <= MaxUsers
        /\ nextId' = nextId + 1
        /\ users' = IF mailOk
                    THEN Put(NewUser(nextId, username, email, password, code, now))
                    ELSE RollbackRegistration(
                             Put(NewUser(nextId, username, email, password, code, now)), nextId)
        /\ last' = IF mailOk
                   THEN Respond("register", email, <<password, code>>, 200, "REGISTRATION_SUCCESS",
                                NoUser, NoCookies)
                   ELSE Respond("register", email, <<password, code>>, 500, "EMAIL_SEND_FAILED",
                                NoUser, NoCookies)
        /\ UNCHANGED <<now, issued, rotated, consec, verifiedOnce>>

\* POST /auth/verify-email
VerifyEmail(email, code) ==
    LET u == get_user_by_email(email)
        r == verify_email_checks(u, code, now)
        v == ActivateUser(u)
        cookies == AuthCookies(v, now)
    IN
    IF r[1] = 200 THEN
        /\ users' = Put(v)
        /\ verifiedOnce' = verifiedOnce \cup {<<u.id, code>>}
        /\ last' = Replayed(Respond("verify-email", email, code, 200, r[2], u, cookies),
                            <<u.id, code>> \in verifiedOnce)
        /\ UNCHANGED <<now, nextId, issued, rotated, consec>>
    ELSE
        /\ last' = Replayed(Respond("verify-email", email, code, r[1], r[2], u, NoCookies),
                            <<u.id, code>> \in verifiedOnce)
        /\ UNCHANGED <<now, users, nextId, issued, rotated, consec, verifiedOnce>>

\* POST /auth/resend-verification
ResendVerification(email, code, mailOk) ==
    LET u == get_user_by_email(email) IN
    IF u = NoUser THEN
        /\ last' = Saying(Respond("resend-verification", email, code, 200,
                                  "VERIFICATION_CODE_RESENT", u, NoCookies),
                          "If the email exists, a new verification code has been sent")
        /\ UNCHANGED <<now, users, nextId, issued, rotated, consec, verifiedOnce>>
    ELSE IF u.email_verified THEN
        /\ last' = Saying(Respond("resend-verification", email, code, 400,
                                  "EMAIL_ALREADY_VERIFIED", u, NoCookies),
                          "Email already verified")
        /\ UNCHANGED <<now, users, nextId, issued, rotated, consec, verifiedOnce>>
    ELSE
        /\ users' = Put(IssueChallenge(u, email, code, now))
        /\ last' = IF mailOk
                   THEN Saying(Respond("resend-verification", email, code, 200,
                                       "VERIFICATION_CODE_RESENT", u, NoCookies),
                               "New verification code sent to your email")
                   ELSE Saying(Respond("resend-verification", email, code, 500,
                                       "EMAIL_SEND_FAILED", u, NoCookies),
                               "Failed to send verification email")
        /\ UNCHANGED <<now, nextId, issued, rotated, consec, verifiedOnce>>

\* POST /auth/login
Login(email, password) ==
    LET u == get_user_by_email(email)
        a == authenticate_user(u, password, now)
        r == login_checks(a.user, now)
        cookies == AuthCookies(a.user, now)
    IN
    IF a.result = "UnknownHashError" THEN
        /\ last' = Respond("login", email, password, 500, "INTERNAL_SERVER_ERROR", u, NoCookies)
        /\ UNCHANGED <<now, users, nextId, issued, rotated, consec, verifiedOnce>>
    ELSE IF a.result = "TypeError" THEN
        /\ consec' = [consec EXCEPT ![u.id] = 0]
        /\ last' = Respond("login", email, password, 500, "INTERNAL_SERVER_ERROR", u, NoCookies)
        /\ UNCHANGED <<now, users, nextId, issued, rotated, verifiedOnce>>
    ELSE IF a.result = "False" THEN
        /\ u # NoUser => u.failed_login_attempts < MaxFailed
        /\ users' = IF u # NoUser THEN Put(handle_failed_login(u, now)) ELSE users
        /\ consec' = IF u = NoUser THEN consec
                     ELSE IF verify_password(password, u.hashed_password)
                          THEN [consec EXCEPT ![u.id] = 0]
                          ELSE [consec EXCEPT ![u.id] = @ + 1]
        /\ last' = Saying(Respond("login", email, password, 401, "INVALID_CREDENTIALS",
                                  u, NoCookies),
                          "Incorrect email or password")
        /\ UNCHANGED <<now, nextId, issued, rotated, verifiedOnce>>
    ELSE
        /\ users' = Put(a.user)
        /\ consec' = [consec EXCEPT ![u.id] = 0]
        /\ last' = Respond("login", email, password, r[1], r[2], u,
                           IF r[1] = 200 THEN cookies ELSE NoCookies)
        /\ UNCHANGED <<now, nextId, issued, rotated, verifiedOnce>>

\* POST /auth/logout
Logout ==
    /\ last' = Respond("logout", "", "", 200, "LOGOUT_SUCCESS", NoUser, NoCookies)
    /\ UNCHANGED <<now, users, nextId, issued, rotated, consec, verifiedOnce>>

\* POST /auth/refresh
RefreshToken(tok) ==
    LET r == refresh_checks(tok, now)
        u == IF r[1] = 200 THEN UserById(tok.sub) ELSE NoUser
        cookies == AuthCookies(u, now)
    IN
    IF r[1] = 200 THEN
        /\ rotated' = rotated \cup ({tok} \ {cookies[2]})
        /\ last' = Replayed(Respond("refresh", u.email, tok, 200, r[2], u, cookies),
                            tok \in rotated)
        /\ UNCHANGED <<now, users, nextId, issued, consec, verifiedOnce>>
    ELSE
        /\ last' = Replayed(Respond("refresh", "", tok, r[1], r[2], u, NoCookies),
                            tok \in rotated)
        /\ UNCHANGED <<now, users, nextId, issued, rotated, consec, verifiedOnce>>

\* POST /auth/password-reset-request
RequestPasswordReset(email, rtok, mailOk) ==
    LET u == get_user_by_email(email) IN
    IF u = NoUser THEN
        /\ last' = Respond("password-reset-request", email, rtok, 404, "USER_NOT_FOUND",
                           u, NoCookies)
        /\ UNCHANGED <<now, users, nextId, issued, rotated, consec, verifiedOnce>>
    ELSE IF ~u.email_verified THEN
        /\ last' = Respond("password-reset-request", email, rtok, 400, "EMAIL_NOT_VERIFIED",
                           u, NoCookies)
        /\ UNCHANGED <<now, users, nextId, issued, rotated, consec, verifiedOnce>>
    ELSE
        /\ users' = Put(IssueResetToken(u, rtok, now))
        /\ last' = IF mailOk
                   THEN Respond("password-reset-request", email, rtok, 200,
                                "PASSWORD_RESET_REQUEST_SUCCESS", u, NoCookies)
                   ELSE Respond("password-reset-request", email, rtok, 500,
                                "EMAIL_SEND_FAILED", u, NoCookies)
        /\ UNCHANGED <<now, nextId, issued, rotated, consec, verifiedOnce>>

\* POST /auth/password-reset-confirm
ConfirmPasswordReset(email, rtok, new_password) ==
    LET u == get_user_by_email(email)
        r == confirm_reset_checks(u, rtok, new_password, now)
    IN
    IF r[1] = 200 THEN
        /\ users' = Put(ResetPassword(u, new_password))
        /\ consec' = [consec EXCEPT ![u.id] = 0]
        /\ last' = Respond("password-reset-confirm", email, rtok, 200, r[2], u, NoCookies)
        /\ UNCHANGED <<now, nextId, issued, rotated, verifiedOnce>>
    ELSE
        /\ last' = Respond("password-reset-confirm", email, rtok, r[1], r[2], u, NoCookies)
        /\ UNCHANGED <<now, users, nextId, issued, rotated, consec, verifiedOnce>>

\* db.query(User).filter(User.username == username).first()
get_user_by_username(n) ==
    IF \E i \in DOMAIN users : users[i].username = n
    THEN users[CHOOSE i \in DOMAIN users : users[i].username = n]
    ELSE NoUser

\* the dependency of the profile router: the row the access_token cookie stands
\* for, or NoUser where it raises 401
get_current_user(tok, t) ==
    IF tok.type = "absent" THEN NoUser
    ELSE IF verify_token(tok, "access", t) # "payload" THEN NoUser
    ELSE IF get_user_by_email(tok.sub) # NoUser THEN get_user_by_email(tok.sub)
    ELSE get_user_by_username(tok.sub)

\* db.delete(current_user); db.commit()
DeleteUser(table, id) == [i \in (DOMAIN table) \ {id} |-> table[i]]

\* DELETE /profile/delete-account (accounts made by /auth/register are no
\* administrators; the confirmation text is checked by the request schema)
DeleteAccount(tok, password) ==
    LET u == get_current_user(tok, now) IN
    IF u = NoUser THEN
        /\ last' = Respond("delete-account", "", password, 401, "INVALID_CREDENTIALS",
                           u, NoCookies)
        /\ UNCHANGED <<now, users, nextId, issued, rotated, consec, verifiedOnce>>
    ELSE IF ~verify_password(password, u.hashed_password) THEN
        /\ last' = Respond("delete-account", u.email, password, 400,
                           "INVALID_CURRENT_PASSWORD", u, NoCookies)
        /\ UNCHANGED <<now, users, nextId, issued, rotated, consec, verifiedOnce>>
    ELSE
        /\ users' = DeleteUser(users, u.id)
        /\ last' = Respond("delete-account", u.email, password, 200, "ACCOUNT_DELETED",
                           u, NoCookies)
        /\ UNCHANGED <<now, nextId, issued, rotated, consec, verifiedOnce>>

\* the cookies a client can present: none, a token of a cookie pair it has
\* kept, or the claims of such a token under a signature of its own
RefreshInputs ==
    {[type |-> "absent"]} \cup {j[1] : j \in issued} \cup {j[2] : j \in issued}
        \cup {[j[2] EXCEPT !.sig = "forged"] : j \in issued}

\* the response goes out to the client; the next request is then taken up
ReturnResponse ==
    /\ last # NoRequest
    /\ last' = NoRequest
    /\ UNCHANGED <<now, users, nextId, issued, rotated, consec, verifiedOnce, call, inflight>>

\* the response goes out and the client keeps the cookies it sets
ClientKeepsCookies ==
    /\ last # NoRequest
    /\ last.cookies # NoCookies
    /\ Cardinality(issued) < MaxIssued
    /\ issued' = issued \cup {last.cookies}
    /\ last' = NoRequest
    /\ UNCHANGED <<now, users, nextId, rotated, consec, verifiedOnce, call, inflight>>

\* requests are handled one at a time
Idle == last = NoRequest /\ UNCHANGED <<call, inflight>>

DoRegister ==
    Idle /\ \E un \in Usernames, e \in Emails \cup {InvalidEmail}, p \in Passwords,
                c \in Codes, mailOk \in BOOLEAN : Register(un, e, p, c, mailOk)
DoVerifyEmail == Idle /\ \E e \in Emails, c \in Codes : VerifyEmail(e, c)
DoResendVerification ==
    Idle /\ \E e \in Emails, c \in Codes, mailOk \in BOOLEAN : ResendVerification(e, c, mailOk)
DoLogin == Idle /\ \E e \in Emails, p \in Passwords : Login(e, p)
DoLogout == Idle /\ Logout
DoRefreshToken == Idle /\ \E tok \in RefreshInputs : RefreshToken(tok)
DoRequestPasswordReset ==
    Idle /\ \E e \in Emails, rt \in ResetTokens, mailOk \in BOOLEAN :
                RequestPasswordReset(e, rt, mailOk)
DoConfirmPasswordReset ==
    Idle /\ \E e \in Emails, rt \in ResetTokens, p \in Passwords :
                ConfirmPasswordReset(e, rt, p)
DoDeleteAccount ==
    Idle /\ \E tok \in RefreshInputs, p \in Passwords : DeleteAccount(tok, p)
DoRegisterAmong ==
    Idle /\ \E un \in Usernames \cup OtherUsernames, e \in Emails \cup OtherEmails,
                p \in Passwords, c \in Codes, mailOk \in BOOLEAN : Register(un, e, p, c, mailOk)
DoVerifyEmailAmong == Idle /\ \E e \in Emails \cup OtherEmails, c \in Codes : VerifyEmail(e, c)
DoTick == Idle /\ Tick
DoWeekPasses == Idle /\ WeekPasses

\* the whole authentication router
Next ==
    \/ ReturnResponse
    \/ ClientKeepsCookies
    \/ DoTick
    \/ DoRegister
    \/ DoVerifyEmail
    \/ DoResendVerification
    \/ DoLogin
    \/ DoLogout
    \/ DoRefreshToken
    \/ DoRequestPasswordReset
    \/ DoConfirmPasswordReset
    \/ DoDeleteAccount
    \/ DoWeekPasses

Spec == Init /\ [][Next]_vars

\* the requests that read or write the users table; /auth/refresh and
\* /auth/logout write nothing and are left to SpecTokens
NextAccounts ==
    \/ ReturnResponse
    \/ DoTick
    \/ DoRegister
    \/ DoVerifyEmail
    \/ DoResendVerification
    \/ DoLogin
    \/ DoRequestPasswordReset
    \/ DoConfirmPasswordReset

SpecAccounts == Init /\ [][NextAccounts]_vars

\* token issue and refresh: the requests that set cookies, and the ones an
\* account needs to become active
NextTokens ==
    \/ ReturnResponse
    \/ ClientKeepsCookies
    \/ DoTick
    \/ DoRegister
    \/ DoVerifyEmail
    \/ DoLogin
    \/ DoLogout
    \/ DoRefreshToken

SpecTokens == Init /\ [][NextTokens]_vars

\* registration by two people who may pick each other's email and username
NextRegistration ==
    \/ ReturnResponse
    \/ DoRegisterAmong
    \/ DoVerifyEmailAmong

SpecRegistration == Init /\ [][NextRegistration]_vars

\* sessions that outlive their account: cookies are issued on verification,
\* refreshed, and the account is deleted
NextSessions ==
    \/ ReturnResponse
    \/ ClientKeepsCookies
    \/ DoTick
    \/ DoRegister
    \/ DoVerifyEmail
    \/ DoRefreshToken
    \/ DoDeleteAccount
    \/ DoWeekPasses

SpecSessions == Init /\ [][NextSessions]_vars

----------------------------------------------------------------------------
(* Properties *)

\* the row, after the request, of the account the request found by email
Post == users[last.pre.id]

Found == last.pre # NoUser /\ last.pre.id \in DOMAIN users

\* the account found was locked when the request arrived: a deadline was set
\* and still in the future
WasLocked ==
    /\ last.pre.account_locked_until # None
    /\ last.at < last.pre.account_locked_until

PasswordMatched == verify_password(last.arg, last.pre.hashed_password)

C2_NoRearmWhileLocked ==
    (last.op = "login" /\ Found /\ WasLocked /\ last.status # 200)
        => Post.account_locked_until = last.pre.account_locked_until

\* C2 amended: a Login that fails while the account is locked never clears or
\* shortens the lockout; with a wrong password it re-arms it, the deadline
\* becoming 30 minutes after the attempt, and with the correct password the
\* deadline keeps its value.
C2_RearmOnWrongPassword ==
    (last.op = "login" /\ Found /\ WasLocked /\ last.status # 200)
        => /\ Post.account_locked_until >= last.pre.account_locked_until
           /\ PasswordMatched
                => Post.account_locked_until = last.pre.account_locked_until
           /\ ~PasswordMatched
                => Post.account_locked_until = last.at + LOCK_MINUTES

\* a wrong password inside the lockout window has moved the deadline
C2_Witness ==
    /\ last.op = "login"
    /\ Found
    /\ WasLocked
    /\ ~PasswordMatched
    /\ Post.account_locked_until > last.pre.account_locked_until

\* C3 (refresh-token rotation): a refresh token that /auth/refresh has already
\* exchanged for a new one is rejected when it is presented again, and the
\* request issues no cookies.
C3_RotatedTokenRejected ==
    (last.op = "refresh" /\ last.replay)
        => /\ last.status # 200
           /\ last.cookies = NoCookies

\* C4 (verification code is single-use): a /auth/verify-email request that presents
\* a code the same account was already verified with is rejected and issues no
\* cookies; the account stays as it was.
C4_CodeSingleUse ==
    (last.op = "verify-email" /\ last.replay)
        => /\ last.status # 200
           /\ last.cookies = NoCookies
           /\ Post = last.pre

C4_Witness ==
    /\ last.op = "verify-email"
    /\ last.replay
    /\ last.status = 400

\* the stored challenge of the row found by the request has run out
ChallengeExpired ==
    /\ last.pre.verification_expires_at # None
    /\ last.pre.verification_expires_at < last.at

\* the account a register or resend request has left a challenge on
Challenged == get_user_by_email(last.email)

\* C5 (verification expiry): every challenge expires 15 minutes after the
\* request that issued it, and /auth/verify-email with the matching code after
\* that moment answers VERIFICATION_CODE_EXPIRED, leaves the account unverified,
\* inactive and otherwise unchanged, and issues no cookies.
C5_ExpiredCodeRejected ==
    /\ (last.op = "verify-email" /\ Found /\ ~last.pre.email_verified /\ ChallengeExpired
            /\ verify_verification_code(last.arg, last.pre.verification_code_hash))
        => /\ last.status = 400
           /\ last.code = "VERIFICATION_CODE_EXPIRED"
           /\ last.cookies = NoCookies
           /\ Post = last.pre
           /\ ~Post.email_verified
           /\ ~Post.is_active
    /\ (last.op \in {"register", "resend-verification"} /\ Challenged # NoUser
            /\ last.code \in {"REGISTRATION_SUCCESS", "VERIFICATION_CODE_SENT",
                              "VERIFICATION_CODE_RESENT", "EMAIL_SEND_FAILED"})
        => Challenged.verification_expires_at = last.at + VERIFICATION_EXPIRE_MINUTES

C5_Witness ==
    /\ last.op = "verify-email"
    /\ Found
    /\ ~last.pre.email_verified
    /\ ChallengeExpired
    /\ verify_verification_code(last.arg, last.pre.verification_code_hash)
    /\ last.code = "VERIFICATION_CODE_EXPIRED"

\* the request replaced the challenge of an account that had one
Reissued ==
    /\ last.op \in {"register", "resend-verification"}
    /\ Found
    /\ last.pre.verification_code_hash # NoHash
    /\ last.code \in {"VERIFICATION_CODE_SENT", "VERIFICATION_CODE_RESENT", "EMAIL_SEND_FAILED"}

\* the code the request generated
Generated == IF last.op = "register" THEN last.arg[2] ELSE last.arg

\* C6 as stated (re-issue invalidates the old code): after a resend, or a register
\* for an unverified email, /auth/verify-email with the code of the replaced
\* challenge fails, whatever code the generator produced.
C6_OldCodeAlwaysInvalid ==
    Reissued
        => \A c \in Codes :
              verify_verification_code(c, last.pre.verification_code_hash)
                  => verify_email_checks(Post, c, last.at)[1] # 200

\* C6 amended: after a re-issue the account accepts exactly the code that the
\* re-issue generated; the code of the replaced challenge fails unless the
\* generator has produced that same code again.
C6_OnlyNewestCodeValid ==
    Reissued
        => \A c \in Codes :
              verify_email_checks(Post, c, last.at)[1] = 200 <=> c = Generated

C6_Witness ==
    /\ Reissued
    /\ ~verify_verification_code(Generated, last.pre.verification_code_hash)
    /\ \E c \in Codes :
          /\ verify_verification_code(c, last.pre.verification_code_hash)
          /\ verify_email_checks(Post, c, last.at)[2] = "INVALID_VERIFICATION_CODE"

\* the request went down register_user's new-account path and the email failed
RegistrationRolledBack ==
    /\ last.op = "register"
    /\ last.code = "EMAIL_SEND_FAILED"
    /\ last.pre = NoUser

\* C7 (registration is all-or-nothing): when the verification email of a new
\* registration cannot be sent, the account the request created is gone: no row
\* has its id or its email.
C7_RegisterAllOrNothing ==
    RegistrationRolledBack
        => /\ (nextId - 1) \notin DOMAIN users
           /\ get_user_by_email(last.email) = NoUser
           /\ last.status = 500
           /\ last.cookies = NoCookies

C7_Witness ==
    /\ RegistrationRolledBack
    /\ nextId > 1
    /\ get_user_by_email(last.email) = NoUser

\* C8 (verify-email contract): /auth/verify-email succeeds only for an existing,
\* unverified account whose challenge has not expired and whose stored hash
\* matches the code; on success the account is verified and active, its three
\* challenge fields are cleared and a token pair for it is issued; otherwise
\* nothing changes and no cookies are issued.
C8_VerifyEmailContract ==
    /\ (last.op = "verify-email" /\ last.status = 200)
        => /\ Found
           /\ ~last.pre.email_verified
           /\ last.pre.verification_expires_at # None
           /\ last.pre.verification_expires_at >= last.at
           /\ verify_verification_code(last.arg, last.pre.verification_code_hash)
           /\ Post.email_verified
           /\ Post.is_active
           /\ Post.verification_code_hash = NoHash
           /\ Post.verification_token = NoToken
           /\ Post.verification_expires_at = None
           /\ last.cookies = <<create_access_token(Post.email, last.at),
                               create_refresh_token(Post.id, last.at)>>
    /\ (last.op = "verify-email" /\ last.status # 200)
        => /\ last.cookies = NoCookies
           /\ Found => Post = last.pre

C8_Witness ==
    /\ last.op = "verify-email"
    /\ last.status = 200
    /\ Post.email_verified
    /\ last.cookies # NoCookies

\* C9 (login contract): /auth/login issues cookies only when the account exists,
\* is active and verified, is not locked and the password matches; cookies are
\* issued exactly with the 200 answer.
C9_LoginContract ==
    /\ (last.op = "login" /\ last.cookies # NoCookies)
        => /\ Found
           /\ last.pre.is_active
           /\ last.pre.email_verified
           /\ ~WasLocked
           /\ PasswordMatched
           /\ last.status = 200
           /\ last.cookies = <<create_access_token(Post.email, last.at),
                               create_refresh_token(Post.id, last.at)>>
    /\ (last.op = "login" /\ last.status = 200) => last.cookies # NoCookies

C9_Witness ==
    /\ last.op = "login"
    /\ last.status = 200
    /\ last.cookies # NoCookies

\* the lockout deadline of the row found by the request has passed
LockPassed ==
    /\ last.pre.account_locked_until # None
    /\ last.pre.account_locked_until < last.at

\* C10 (lockout expiry): a /auth/login with the correct password for an active,
\* verified account whose lockout deadline has passed succeeds; and after every
\* successful login failed_login_attempts is 0 and account_locked_until is
\* cleared.
C10_LoginAfterLockExpiry ==
    /\ (last.op = "login" /\ Found /\ PasswordMatched /\ LockPassed
            /\ last.pre.is_active /\ last.pre.email_verified)
        => /\ last.status = 200
           /\ last.cookies # NoCookies
    /\ (last.op = "login" /\ last.status = 200)
        => /\ Post.failed_login_attempts = 0
           /\ Post.account_locked_until = None

\* C26 as stated (no new lock after one failure): a Login that fails after the
\* lockout deadline has passed sets no new lockout deadline.
C26_NoRelockAfterExpiry ==
    (last.op = "login" /\ Found /\ LockPassed /\ last.status # 200)
        => Post.account_locked_until = last.pre.account_locked_until

\* C26 amended: a lockout leaves failed_login_attempts at 5 or more, and the
\* passing of the deadline does not lower it; so a single Login with a wrong
\* password after the deadline has passed counts as one failure more and sets a
\* new lockout deadline, 30 minutes after that attempt.
C26_RelockOnNextFailure ==
    /\ \A i \in DOMAIN users :
          users[i].account_locked_until # None
              => users[i].failed_login_attempts >= LOCK_THRESHOLD
    /\ (last.op = "login" /\ Found /\ LockPassed /\ ~PasswordMatched)
        => /\ last.status = 401
           /\ Post.failed_login_attempts = last.pre.failed_login_attempts + 1
           /\ Post.account_locked_until = last.at + LOCK_MINUTES

C26_Witness ==
    /\ last.op = "login"
    /\ Found
    /\ LockPassed
    /\ ~PasswordMatched
    /\ Post.account_locked_until > last.at

\* C27 (a failed email leaves the challenge alone): when /auth/resend-verification,
\* the resend path of /auth/register or /auth/password-reset-request answers
\* EMAIL_SEND_FAILED, the account's row is as it was before the request: the
\* code hash, the reset token and their expiries are the ones delivered earlier,
\* and a code that verified before the request still does.
C27_FailedSendKeepsChallenge ==
    (last.op \in {"resend-verification", "register", "password-reset-request"}
            /\ last.code = "EMAIL_SEND_FAILED" /\ Found)
        => /\ Post = last.pre
           /\ \A c \in Codes :
                 verify_email_checks(last.pre, c, last.at)[1] = 200
                     => verify_email_checks(Post, c, last.at)[1] = 200

\* the stored reset token of the row found by the request has run out
ResetExpired ==
    /\ last.pre.password_reset_expires_at # None
    /\ last.pre.password_reset_expires_at < last.at

\* C11 (password reset rejects a bad token): every reset token expires 30 minutes
\* after the request that issued it, and /auth/password-reset-confirm with a token
\* that differs from the stored one, with no stored token, or after the expiry is
\* answered 400 INVALID_RESET_TOKEN and leaves the whole row (password hash, reset
\* token, reset expiry, failed-login counter, lockout deadline) unchanged.
C11_BadResetTokenRejected ==
    /\ (last.op = "password-reset-confirm" /\ Found
            /\ (\/ last.pre.password_reset_token = NoResetToken
                \/ last.pre.password_reset_token # last.arg
                \/ ResetExpired))
        => /\ last.status = 400
           /\ last.code = "INVALID_RESET_TOKEN"
           /\ last.cookies = NoCookies
           /\ Post = last.pre
    /\ (last.op = "password-reset-request"
            /\ last.code \in {"PASSWORD_RESET_REQUEST_SUCCESS", "EMAIL_SEND_FAILED"})
        => /\ Post.password_reset_token = last.arg
           /\ Post.password_reset_expires_at = last.at + PASSWORD_RESET_EXPIRE_MINUTES

\* the expiry case of C11: the stored token itself, presented too late
C11_WitnessExpired ==
    /\ last.op = "password-reset-confirm"
    /\ Found
    /\ last.pre.password_reset_token = last.arg
    /\ ResetExpired
    /\ last.status = 400

C11_Witness ==
    /\ last.op = "password-reset-confirm"
    /\ Found
    /\ last.pre.password_reset_token # NoResetToken
    /\ last.pre.password_reset_token # last.arg
    /\ ~ResetExpired
    /\ last.pre.account_locked_until # None
    /\ last.status = 400

\* C12 (password reset success, single use): a /auth/password-reset-confirm
\* answered 200 leaves the reset token and its expiry cleared,
\* failed_login_attempts 0, account_locked_until cleared and the hash of the new
\* password stored; the row then accepts no reset token at all, so the same
\* token presented again is rejected.
C12_ResetSuccessSingleUse ==
    (last.op = "password-reset-confirm" /\ last.status = 200)
        => /\ Found
           /\ last.pre.password_reset_token = last.arg
           /\ Post.password_reset_token = NoResetToken
           /\ Post.password_reset_expires_at = None
           /\ Post.failed_login_attempts = 0
           /\ Post.account_locked_until = None
           /\ \E p \in Passwords :
                 /\ is_password_strong(p)
                 /\ Post.hashed_password = get_password_hash(p)
                 /\ Post = ResetPassword(last.pre, p)
           /\ \A rt \in ResetTokens, p \in Passwords :
                 confirm_reset_checks(Post, rt, p, last.at) = <<400, "INVALID_RESET_TOKEN">>

C12_Witness ==
    /\ last.op = "password-reset-confirm"
    /\ last.status = 200
    /\ last.pre.account_locked_until # None
    /\ last.pre.failed_login_attempts >= LOCK_THRESHOLD
    /\ Post.hashed_password # last.pre.hashed_password
    /\ Post.account_locked_until = None

\* the refresh cookie presented is a token the server signed, of type refresh,
\* whose exp has not passed
ValidRefreshCookie ==
    /\ last.arg.type = "refresh"
    /\ last.arg.sig = SECRET_KEY
    /\ last.arg.exp >= last.at

\* C14 (refresh contract): /auth/refresh sets a new cookie pair only when the
\* cookie presented is a server-signed, unexpired token of type refresh whose
\* subject is an existing account with is_active true, and the pair is for that
\* account; when the account of the subject no longer exists or is inactive the
\* request is answered 401 and sets no cookies.
C14_RefreshContract ==
    /\ (last.op = "refresh" /\ last.cookies # NoCookies)
        => /\ last.status = 200
           /\ ValidRefreshCookie
           /\ UserById(last.arg.sub) # NoUser
           /\ UserById(last.arg.sub).is_active
           /\ last.cookies = AuthCookies(UserById(last.arg.sub), last.at)
    /\ (last.op = "refresh" /\ last.status = 200) => last.cookies # NoCookies
    /\ (last.op = "refresh" /\ last.arg.type # "absent"
            /\ (UserById(last.arg.sub) = NoUser \/ ~UserById(last.arg.sub).is_active))
        => /\ last.status = 401
           /\ last.cookies = NoCookies

C14_Witness ==
    /\ last.op = "refresh"
    /\ ValidRefreshCookie
    /\ UserById(last.arg.sub) = NoUser
    /\ last.status = 401
    /\ last.code = "USER_NOT_FOUND"

\* the expiry case of C14: a server-signed refresh token presented after its exp
C14_WitnessExpired ==
    /\ last.op = "refresh"
    /\ last.arg.type = "refresh"
    /\ last.arg.sig = SECRET_KEY
    /\ last.arg.exp < last.at
    /\ last.code = "INVALID_REFRESH_TOKEN"

\* what a client sees of a response
Visible(r) == <<r.status, r.code, r.message, r.cookies>>

\* the answer of /auth/resend-verification to an email no account has
ResendUnknownResponse ==
    <<200, "VERIFICATION_CODE_RESENT",
      "If the email exists, a new verification code has been sent", NoCookies>>

\* C15 (resend is enumeration-safe): the response of /auth/resend-verification
\* (status, code and message) is the same whether or not an account has the
\* email submitted.
C15_ResendEnumerationSafe ==
    last.op = "resend-verification" => Visible(last) = ResendUnknownResponse

\* the answer of /auth/login to an email no account has
LoginUnknownResponse ==
    <<401, "INVALID_CREDENTIALS", "Incorrect email or password", NoCookies>>

\* C16 (login does not tell unknown email from wrong password): /auth/login
\* gives the same 401 INVALID_CREDENTIALS response, with the same message and
\* no cookies, for an email no account has and for the email of an account with
\* a password that does not match, whatever the state of that account.
C16_LoginGenericFailure ==
    (last.op = "login" /\ (last.pre = NoUser \/ ~PasswordMatched))
        => Visible(last) = LoginUnknownResponse

C16_Witness ==
    /\ last.op = "login"
    /\ Found
    /\ ~PasswordMatched
    /\ WasLocked
    /\ last.pre.email_verified
    /\ Visible(last) = LoginUnknownResponse

\* the unknown-email case of C16
C16_WitnessUnknown ==
    /\ last.op = "login"
    /\ last.pre = NoUser
    /\ Visible(last) = LoginUnknownResponse

\* C17 (accounts are unique): no two accounts share an email and no two share a
\* username; /auth/register with the email of a verified account is answered 400
\* and changes no account; with the email of an unverified account it creates no
\* account; with a taken username and a new email it is answered 400
\* USERNAME_EXISTS and creates no account.
C17_AccountsUnique ==
    /\ \A i, j \in DOMAIN users :
          i # j => /\ users[i].email # users[j].email
                   /\ users[i].username # users[j].username
    /\ (last.op = "register"
            /\ \E i \in last.ids : users[i].email = last.email /\ users[i].email_verified)
        => /\ last.status = 400
           /\ last.code \in {"EMAIL_EXISTS", "USERNAME_EXISTS", "WEAK_PASSWORD"}
           /\ DOMAIN users = last.ids
           /\ Found => Post = last.pre
           /\ (Found /\ last.pre.email = last.email) => last.code = "EMAIL_EXISTS"
    /\ (last.op = "register"
            /\ \E i \in last.ids : users[i].email = last.email /\ ~users[i].email_verified)
        => /\ DOMAIN users = last.ids
           /\ last.code \in {"VERIFICATION_CODE_SENT", "EMAIL_SEND_FAILED",
                             "USERNAME_EXISTS", "WEAK_PASSWORD"}
    /\ (last.op = "register" /\ last.pre # NoUser /\ last.pre.email # last.email)
        => /\ last.status = 400
           /\ last.code = "USERNAME_EXISTS"
           /\ DOMAIN users = last.ids
           /\ Post = last.pre

C17_Witness ==
    /\ last.op = "register"
    /\ last.code = "USERNAME_EXISTS"
    /\ last.pre.email_verified
    /\ \A i \in DOMAIN users : users[i].email # last.email

\* the verified-email case of C17 with two rows matching
C17_WitnessVerified ==
    /\ last.op = "register"
    /\ last.code = "EMAIL_EXISTS"
    /\ \E i \in DOMAIN users : users[i].username = "bob" /\ users[i].email # last.email

----------------------------------------------------------------------------
(* verify_token applied on its own *)

\* the instants of the clock, and the same instants after the lifetime of a
\* refresh token
Instants == {t \in 0..MaxTime : t % TickMinutes = 0}
Clock == Instants \cup {t + REFRESH_TOKEN_EXPIRE_DAYS * MinutesPerDay + 1 : t \in Instants}

\* every string a client can put into a cookie: tokens of the three types the
\* server signs (access, refresh, email_verification), the same claims under a
\* signature that does not verify, and strings that are no JWT
CookieTokens ==
    [sub : {"1"} \cup Emails,
     type : {"access", "refresh", "email_verification"},
     iat : {0},
     exp : {ACCESS_TOKEN_EXPIRE_MINUTES, REFRESH_TOKEN_EXPIRE_DAYS * MinutesPerDay},
     sig : {SECRET_KEY, "forged", "malformed"}]

InitVerifyToken ==
    /\ now \in Clock
    /\ users = << >>
    /\ nextId = 1
    /\ issued = {}
    /\ rotated = {}
    /\ consec = [i \in Ids |-> 0]
    /\ verifiedOnce = {}
    /\ last = NoRequest
    /\ inflight = NoRequests
    /\ call \in [fn : {"verify_token"}, token : CookieTokens,
                 token_type : {"access", "refresh"}, result : {"pending"}]

ApplyVerifyToken ==
    /\ call.fn = "verify_token"
    /\ call.result = "pending"
    /\ call' = [call EXCEPT !.result = verify_token(call.token, call.token_type, now)]
    /\ UNCHANGED <<now, users, nextId, issued, rotated, consec, verifiedOnce, last, inflight>>

SpecVerifyToken == InitVerifyToken /\ [][ApplyVerifyToken]_vars

\* C13 (verify_token): verify_token(token, expected_type) returns the claims
\* exactly when the token is signed with the server's key, its type claim equals
\* expected_type and its exp has not passed; everything else, a token of the
\* other type included, gives None, and no input makes it raise.
C13_VerifyTokenContract ==
    (call.fn = "verify_token" /\ call.result # "pending")
        => /\ call.result \in {"payload", "None"}
           /\ call.result = "payload"
                <=> /\ call.token.sig = SECRET_KEY
                    /\ call.token.type = call.token_type
                    /\ call.token.exp >= now

C13_Witness ==
    /\ call.fn = "verify_token"
    /\ call.result = "None"
    /\ call.token.sig = SECRET_KEY
    /\ call.token.type = "refresh"
    /\ call.token_type = "access"
    /\ call.token.exp >= now

----------------------------------------------------------------------------
(* Rank auto-promotion (rank_utils.py) *)

RankIds == 1..MaxRanks

\* users.rank_id is nullable
NoRank == 0

\* the requirements a rank can have, <<"comments", "likes">>; 0 where the key is
\* absent
Thresholds == {<<0, 0>>, <<MaxComments, 0>>, <<MaxComments, MaxLikes>>}

\* the user_ranks tables considered: per rank a level, the thresholds of its
\* requirements and is_active
RankTables ==
    [RankIds -> {[level |-> l, comments |-> q[1], likes |-> q[2], is_active |-> a] :
                    l \in 1..MaxLevel, q \in Thresholds, a \in BOOLEAN}]

\* user.total_comments >= comments_req and user.total_likes_received >= likes_req
Qualifies(u, r) ==
    /\ u.total_comments >= r.comments
    /\ u.total_likes_received >= r.likes

\* the orders in which .filter(is_active).order_by(level.desc()).all() can return
\* the active ranks: ranks of one level come in any order
SortedOrders_ascending(ranks) ==
    LET active == {i \in RankIds : ranks[i].is_active} IN
    {o \in [1..Cardinality(active) -> active] :
        /\ \A a, b \in DOMAIN o : a # b => o[a] # o[b]
        /\ \A a, b \in DOMAIN o : a < b => ranks[o[a]].level <= ranks[o[b]].level}

SortedOrders(ranks) ==
    LET active == {i \in RankIds : ranks[i].is_active} IN
    {o \in [1..Cardinality(active) -> active] :
        /\ \A a, b \in DOMAIN o : a # b => o[a] # o[b]
        /\ \A a, b \in DOMAIN o : a < b => ranks[o[a]].level >= ranks[o[b]].level}

\* a promotion that also moves the user to a rank of its own level
RankLoop_not_strict(order, ranks, u) ==
    LET hits == {k \in DOMAIN order : Qualifies(u, ranks[order[k]])} IN
    IF hits = {} THEN [upgraded |-> FALSE, user |-> u]
    ELSE LET k == CHOOSE x \in hits : \A y \in hits : x <= y IN
         IF u.rank_id = NoRank \/ ranks[order[k]].level >= ranks[u.rank_id].level
         THEN [upgraded |-> TRUE, user |-> [u EXCEPT !.rank_id = order[k]]]
         ELSE [upgraded |-> FALSE, user |-> u]

\* the loop of auto_check_rank_upgrade over available_ranks
RECURSIVE RankLoop(_, _, _)
RankLoop(order, ranks, u) ==
    IF order = << >> THEN [upgraded |-> FALSE, user |-> u]
    ELSE IF Qualifies(u, ranks[Head(order)])
         THEN IF u.rank_id = NoRank \/ ranks[Head(order)].level > ranks[u.rank_id].level
              THEN [upgraded |-> TRUE, user |-> [u EXCEPT !.rank_id = Head(order)]]
              ELSE [upgraded |-> FALSE, user |-> u]
         ELSE RankLoop(Tail(order), ranks, u)

\* auto_check_rank_upgrade on the row u; order: the query result
auto_check_rank_upgrade(order, ranks, u) == RankLoop(order, ranks, u)

InitRanks ==
    /\ now = 0
    /\ users = << >>
    /\ nextId = 1
    /\ issued = {}
    /\ rotated = {}
    /\ consec = [i \in Ids |-> 0]
    /\ verifiedOnce = {}
    /\ last = NoRequest
    /\ inflight = NoRequests
    /\ call \in [fn : {"rank"},
                 ranks : RankTables,
                 user : [rank_id : RankIds \cup {NoRank}, total_comments : {0},
                         total_likes_received : {0}],
                 prev : {[rank_id |-> NoRank, total_comments |-> 0,
                          total_likes_received |-> 0]},
                 op : {"none"},
                 upgraded : {FALSE}]

\* the rank check on the row u, with the row as it was handed to the check kept
\* in prev
CheckRank(op, u) ==
    \E order \in SortedOrders(call.ranks) :
        LET res == auto_check_rank_upgrade(order, call.ranks, u) IN
        call' = [call EXCEPT !.user = res.user, !.prev = u, !.op = op,
                             !.upgraded = res.upgraded]

\* POST /check-rank-upgrade/{user_id} of the roles router
AutoCheckRankUpgrade ==
    /\ call.fn = "rank"
    /\ CheckRank("auto_check", call.user)
    /\ UNCHANGED <<now, users, nextId, issued, rotated, consec, verifiedOnce, last, inflight>>

\* update_user_stats(user_id, db, "comment")
UpdateUserStatsComment ==
    /\ call.fn = "rank"
    /\ call.user.total_comments < MaxComments
    /\ CheckRank("comment", [call.user EXCEPT !.total_comments = @ + 1])
    /\ UNCHANGED <<now, users, nextId, issued, rotated, consec, verifiedOnce, last, inflight>>

\* update_user_stats(user_id, db, "like_received")
UpdateUserStatsLike ==
    /\ call.fn = "rank"
    /\ call.user.total_likes_received < MaxLikes
    /\ CheckRank("like_received", [call.user EXCEPT !.total_likes_received = @ + 1])
    /\ UNCHANGED <<now, users, nextId, issued, rotated, consec, verifiedOnce, last, inflight>>

NextRanks ==
    \/ AutoCheckRankUpgrade
    \/ UpdateUserStatsComment
    \/ UpdateUserStatsLike

SpecRanks == InitRanks /\ [][NextRanks]_vars

\* the level of the user's rank; a user without rank is below every rank
LevelOf(u) == IF u.rank_id = NoRank THEN 0 ELSE call.ranks[u.rank_id].level

\* the active ranks whose two thresholds the row handed to the check meets
Qualified == {i \in RankIds : call.ranks[i].is_active /\ Qualifies(call.prev, call.ranks[i])}

\* the highest level among them
TopLevel == CHOOSE l \in 1..MaxLevel :
                /\ \E i \in Qualified : call.ranks[i].level = l
                /\ \A i \in Qualified : call.ranks[i].level <= l

\* C18 (rank promotion): auto_check_rank_upgrade moves the user to an active rank
\* of the highest level among the active ranks whose comment and like thresholds
\* the counters meet, and reports an upgrade, exactly when that level is greater
\* than the level of the user's rank or the user has no rank; otherwise the row
\* is unchanged and no upgrade is reported.
C18_PromotesToHighestQualified ==
    (call.fn = "rank" /\ call.op # "none")
        => IF Qualified # {} /\ (call.prev.rank_id = NoRank \/ TopLevel > LevelOf(call.prev))
           THEN /\ call.upgraded
                /\ call.user.rank_id \in Qualified
                /\ LevelOf(call.user) = TopLevel
                /\ call.user.total_comments = call.prev.total_comments
                /\ call.user.total_likes_received = call.prev.total_likes_received
           ELSE /\ ~call.upgraded
                /\ call.user = call.prev

C18_Witness ==
    /\ call.fn = "rank"
    /\ call.op = "auto_check"
    /\ call.upgraded
    /\ call.prev.rank_id # NoRank
    /\ Cardinality(Qualified) = 2
    /\ \E i \in Qualified : call.ranks[i].level < TopLevel

\* C19 (promotion is monotonic and idempotent): no update_user_stats or
\* auto_check_rank_upgrade call lowers the level of the user's rank, and a
\* further auto_check_rank_upgrade on the counters as they are changes nothing
\* and reports no upgrade, in whatever order the ranks are read.
C19_MonotonicIdempotent ==
    (call.fn = "rank" /\ call.op # "none")
        => /\ LevelOf(call.user) >= LevelOf(call.prev)
           /\ \A order \in SortedOrders(call.ranks) :
                 /\ ~auto_check_rank_upgrade(order, call.ranks, call.user).upgraded
                 /\ auto_check_rank_upgrade(order, call.ranks, call.user).user = call.user

C19_Witness ==
    /\ call.fn = "rank"
    /\ call.op = "auto_check"
    /\ ~call.upgraded
    /\ call.user.rank_id # NoRank
    /\ call.user.total_comments = MaxComments
    /\ \E i \in Qualified : i # call.user.rank_id /\ call.ranks[i].level = LevelOf(call.user)

----------------------------------------------------------------------------
(* Hash verification on stored values of any shape *)

\* what the hashed_password or verification_code_hash column can hold: a bcrypt
\* hash, or a value that is none
StoredHashes ==
    {get_password_hash(p) : p \in {q \in Passwords : is_password_strong(q)}}
        \cup {hash_verification_code(c) : c \in Codes}
        \cup {MalformedHash}

\* a verified account whose hashed_password column holds h
AccountWithHash(h) ==
    [ActivateUser(NewUser(1, "alice", "alice@example.com", "Str0ng!Pass", "111111", 0))
        EXCEPT !.hashed_password = h]

InitHashes ==
    /\ now = 0
    /\ \E h \in StoredHashes : users = (1 :> AccountWithHash(h))
    /\ nextId = 2
    /\ issued = {}
    /\ rotated = {}
    /\ consec = [i \in Ids |-> 0]
    /\ verifiedOnce = {}
    /\ last = NoRequest
    /\ inflight = NoRequests
    /\ call \in [fn : {"verify_password"}, secret : Passwords,
                 hash : StoredHashes, result : {"pending"}]
                \cup [fn : {"verify_verification_code"}, secret : Codes,
                      hash : StoredHashes, result : {"pending"}]

\* verify_password(plain_password, hashed_password): the value returned, or the
\* exception that leaves it
ApplyVerifyPassword ==
    /\ call.fn = "verify_password"
    /\ call.result = "pending"
    /\ call' = [call EXCEPT !.result = pwd_context_verify(call.secret, call.hash)]
    /\ UNCHANGED <<now, users, nextId, issued, rotated, consec, verifiedOnce, last, inflight>>

\* verify_verification_code(plain_code, hashed_code)
ApplyVerifyCode ==
    /\ call.fn = "verify_verification_code"
    /\ call.result = "pending"
    /\ call' = [call EXCEPT !.result = IF verify_verification_code(call.secret, call.hash)
                                       THEN "True" ELSE "False"]
    /\ UNCHANGED <<now, users, nextId, issued, rotated, consec, verifiedOnce, last, inflight>>

NextHashes ==
    \/ ApplyVerifyPassword
    \/ ApplyVerifyCode
    \/ DoLogin
    \/ ReturnResponse

SpecHashes == InitHashes /\ [][NextHashes]_vars

\* C20 (malformed stored hash): on a stored value that is no valid hash
\* verify_password and verify_verification_code return False and raise nothing,
\* and /auth/login for an account with such a hashed_password gives the ordinary
\* 401 INVALID_CREDENTIALS response.
C20_MalformedHashFails ==
    /\ (call.fn \in {"verify_password", "verify_verification_code"}
            /\ call.result # "pending" /\ call.hash = MalformedHash)
        => call.result = "False"
    /\ (last.op = "login" /\ Found /\ last.pre.hashed_password = MalformedHash)
        => Visible(last) = LoginUnknownResponse

\* the part of C20 that the code meets: verify_verification_code on a malformed hash
C20_CodeVerificationSafe ==
    (call.fn = "verify_verification_code" /\ call.result # "pending"
        /\ call.hash = MalformedHash)
        => call.result = "False"

----------------------------------------------------------------------------
(* Requests handled at the same time *)

(***************************************************************************)
(* Every request gets a database session of its own (database.py:37-42)    *)
(* and no handler locks a row (there is no with_for_update and no UPDATE   *)
(* computed in the database).  A session keeps the rows it has loaded: a   *)
(* later query of the same session for the same row hands back the loaded  *)
(* object with the values of the first load, until the session commits.    *)
(* On commit the session writes the columns the handler has assigned a     *)
(* different value to, and no others.  The steps below are the statements  *)
(* a handler sends to the database; statements of different requests       *)
(* interleave whenever the requests are served by different workers of the *)
(* application, or where a handler awaits between two of its statements.   *)
(***************************************************************************)

Requests == 1..MaxRequests

\* a request that has not arrived yet
NotArrived ==
    [op |-> "none", pc |-> "start", arg |-> "", row |-> NoUser, status |-> 0, code |-> "",
     at |-> 0]

\* the UPDATE a commit sends for one row: the columns whose value the handler
\* changed on the object it loaded, written over the row as it is now
Flush(current, loaded, changed) ==
    [f \in DOMAIN current |-> IF changed[f] # loaded[f] THEN changed[f] ELSE current[f]]

\* an increment computed by the database on the row as it is at the commit
FailedLoginUpdate_in_database(current, loaded, t) == handle_failed_login(current, t)

\* handle_failed_login on the object the session loaded, and its commit
FailedLoginUpdate(current, loaded, t) == Flush(current, loaded, handle_failed_login(loaded, t))

\* a verified account on which n wrong passwords have been counted
AccountWithFailures(n) ==
    [ActivateUser(NewUser(1, "alice", "alice@example.com", "Str0ng!Pass", "111111", 0))
        EXCEPT !.failed_login_attempts = n]

InitFailedLogins ==
    /\ now = 0
    /\ \E n \in 0..(LOCK_THRESHOLD - 1) : users = (1 :> AccountWithFailures(n))
    /\ nextId = 2
    /\ issued = {}
    /\ rotated = {}
    /\ consec = [i \in Ids |-> 0]
    /\ verifiedOnce = {}
    /\ last = NoRequest
    /\ call = NoCall
    /\ inflight = [r \in Requests |-> NotArrived]

\* login_user up to the result of authenticate_user: the session loads the row
\* and the password does not match
LoginLoad(r, email, password) ==
    LET u == get_user_by_email(email)
        a == authenticate_user(u, password, now)
    IN
    /\ inflight[r].pc = "start"
    /\ a.result = "False"
    /\ inflight' = [inflight EXCEPT ![r] = [op |-> "login", pc |-> "failed", arg |-> password,
                                            row |-> u, status |-> 0, code |-> "",
                                            at |-> now]]
    /\ UNCHANGED <<now, users, nextId, issued, rotated, consec, verifiedOnce, last, call>>

\* login_user from handle_failed_login to the 401 response
LoginCommitFailure(r) ==
    LET loaded == inflight[r].row IN
    /\ inflight[r].op = "login"
    /\ inflight[r].pc = "failed"
    /\ loaded # NoUser => loaded.failed_login_attempts < MaxFailed
    /\ users' = IF loaded # NoUser /\ loaded.id \in DOMAIN users
                THEN [users EXCEPT ![loaded.id] = FailedLoginUpdate(@, loaded, now)]
                ELSE users
    /\ inflight' = [inflight EXCEPT ![r].pc = "done", ![r].status = 401,
                                     ![r].code = "INVALID_CREDENTIALS", ![r].at = now]
    /\ UNCHANGED <<now, nextId, issued, rotated, consec, verifiedOnce, last, call>>

DoLoginLoad ==
    \E r \in Requests, e \in Emails, p \in Passwords : LoginLoad(r, e, p)
DoLoginCommitFailure == \E r \in Requests : LoginCommitFailure(r)

\* logins with a wrong password for one account, handled at the same time
NextFailedLogins ==
    \/ DoLoginLoad
    \/ DoLoginCommitFailure
    \/ Tick

SpecFailedLogins == InitFailedLogins /\ [][NextFailedLogins]_vars

\* every request of the run has been answered
AllDone == \A r \in Requests : inflight[r].pc = "done"

AllLogins == inflight # NoRequests /\ \A r \in Requests : inflight[r].op = "login"

\* the counter values the requests read, and the least of them: the value
\* before the first request
SeenFailures == {inflight[r].row.failed_login_attempts : r \in Requests}
FailuresBefore == CHOOSE n \in SeenFailures : \A m \in SeenFailures : n <= m

\* C21 (the failed-login counter is not atomic): after failed Login requests for
\* one account that were handled at the same time, failed_login_attempts has grown
\* by at least 1 and at most the number of requests, and by the number of requests
\* only when no two of them read the same value: two requests that both read the
\* counter before either commits raise it by 1.  The lockout deadline is set
\* exactly when some request read a value one below the threshold or higher.
C21_CounterUnderCounts ==
    (AllLogins /\ AllDone)
        => /\ users[1].failed_login_attempts >= FailuresBefore + 1
           /\ users[1].failed_login_attempts <= FailuresBefore + MaxRequests
           /\ users[1].failed_login_attempts = FailuresBefore + MaxRequests
                <=> \A r1, r2 \in Requests :
                       r1 # r2 => inflight[r1].row.failed_login_attempts
                                    # inflight[r2].row.failed_login_attempts
           /\ users[1].account_locked_until # None
                <=> \E r \in Requests :
                       inflight[r].row.failed_login_attempts + 1 >= LOCK_THRESHOLD

\* two failed logins on a counter of 3 have left it at 4 and the account unlocked
C21_Witness ==
    /\ AllLogins
    /\ AllDone
    /\ \E r1, r2 \in Requests : r1 # r2
    /\ users[1].failed_login_attempts = FailuresBefore + 1
    /\ FailuresBefore + 2 >= LOCK_THRESHOLD
    /\ users[1].account_locked_until = None

----------------------------------------------------------------------------
(* /auth/register handled at the same time *)

\* the request r answered: it takes no further step
Answered(r, status, code) ==
    [inflight EXCEPT ![r].pc = "done", ![r].status = status, ![r].code = code]

InitRegistrations ==
    /\ now = 0
    /\ users = << >>
    /\ nextId = 1
    /\ issued = {}
    /\ rotated = {}
    /\ consec = [i \in Ids |-> 0]
    /\ verifiedOnce = {}
    /\ last = NoRequest
    /\ call = NoCall
    /\ inflight = [r \in Requests |-> NotArrived]

\* register_user up to the existing_user query (auth.py:41-101); arg keeps the
\* request body and the code generated
RegisterQuery(r, username, email, password, code) ==
    LET matches == RegisterMatches(username, email)
        req == [inflight[r] EXCEPT !.op = "register",
                                   !.arg = <<username, email, password, code>>,
                                   !.at = now]
        answer(status, c) == [inflight EXCEPT ![r] = [req EXCEPT !.pc = "done",
                                                               !.status = status,
                                                               !.code = c]]
    IN
    /\ inflight[r].pc = "start"
    /\ inflight[r].op = "none"
    /\ IF ~is_email_valid(email) THEN inflight' = answer(400, "INVALID_EMAIL_FORMAT")
       ELSE IF ~is_password_strong(password) THEN inflight' = answer(400, "WEAK_PASSWORD")
       ELSE IF matches # {} THEN
           \E i \in matches :
               IF users[i].email = email
               THEN IF users[i].email_verified
                    THEN inflight' = answer(400, "EMAIL_EXISTS")
                    ELSE inflight' = [inflight EXCEPT ![r] = [req EXCEPT !.pc = "update",
                                                                         !.row = users[i]]]
               ELSE inflight' = answer(400, "USERNAME_EXISTS")
       ELSE inflight' = [inflight EXCEPT ![r] = [req EXCEPT !.pc = "insert"]]
    /\ UNCHANGED <<now, users, nextId, issued, rotated, consec, verifiedOnce, last, call>>

\* db.add(db_user); db.commit(); db.refresh(db_user).  username and email are
\* unique columns (models.py:141-142): the INSERT of a second row with either
\* raises IntegrityError, which register_user does not catch
RegisterInsert(r) ==
    LET a == inflight[r].arg
        row == NewUser(nextId, a[1], a[2], a[3], a[4], now)
    IN
    /\ inflight[r].op = "register"
    /\ inflight[r].pc = "insert"
    /\ nextId <= MaxUsers
    /\ nextId' = nextId + 1
    /\ IF RegisterMatches(a[1], a[2]) # {}
       THEN /\ users' = users
            /\ inflight' = Answered(r, 500, "IntegrityError")
       ELSE /\ users' = Put(row)
            /\ inflight' = [inflight EXCEPT ![r].pc = "sending_new", ![r].row = row]
    /\ UNCHANGED <<now, issued, rotated, consec, verifiedOnce, last, call>>

\* the resend path: the three assignments and db.commit().  An UPDATE that
\* finds the row gone raises StaleDataError, which register_user does not catch
RegisterUpdate(r) ==
    LET a == inflight[r].arg
        loaded == inflight[r].row
    IN
    /\ inflight[r].op = "register"
    /\ inflight[r].pc = "update"
    /\ IF loaded.id \notin DOMAIN users
       THEN /\ users' = users
            /\ inflight' = Answered(r, 500, "StaleDataError")
       ELSE /\ users' = [users EXCEPT ![loaded.id] =
                            Flush(@, loaded, IssueChallenge(loaded, a[2], a[4], now))]
            /\ inflight' = [inflight EXCEPT ![r].pc = "sending_resend"]
    /\ UNCHANGED <<now, nextId, issued, rotated, consec, verifiedOnce, last, call>>

\* the email provider answers: the response, and on the new-account path the
\* compensating db.delete(db_user); db.commit()
RegisterEmailResult(r, mailOk) ==
    /\ inflight[r].op = "register"
    /\ inflight[r].pc \in {"sending_new", "sending_resend"}
    /\ IF inflight[r].pc = "sending_new"
       THEN IF mailOk
            THEN /\ users' = users
                 /\ inflight' = Answered(r, 200, "REGISTRATION_SUCCESS")
            ELSE /\ users' = RollbackRegistration(users, inflight[r].row.id)
                 /\ inflight' = Answered(r, 500, "EMAIL_SEND_FAILED")
       ELSE /\ users' = users
            /\ inflight' = IF mailOk
                           THEN Answered(r, 200, "VERIFICATION_CODE_SENT")
                           ELSE Answered(r, 500, "EMAIL_SEND_FAILED")
    /\ UNCHANGED <<now, nextId, issued, rotated, consec, verifiedOnce, last, call>>

DoRegisterQuery ==
    \E r \in Requests, un \in Usernames, e \in Emails, p \in Passwords, c \in Codes :
        RegisterQuery(r, un, e, p, c)
DoRegisterInsert == \E r \in Requests : RegisterInsert(r)
DoRegisterUpdate == \E r \in Requests : RegisterUpdate(r)
DoRegisterEmailResult == \E r \in Requests, mailOk \in BOOLEAN : RegisterEmailResult(r, mailOk)

\* registrations of one email address, handled at the same time
NextRegistrations ==
    \/ DoRegisterQuery
    \/ DoRegisterInsert
    \/ DoRegisterUpdate
    \/ DoRegisterEmailResult

SpecRegistrations == InitRegistrations /\ [][NextRegistrations]_vars

AllRegistrations == inflight # NoRequests /\ \A r \in Requests : inflight[r].op = "register"

\* C28 (a delivered code has its account): once every /auth/register request
\* for an address has been answered, if one of them was answered with success
\* then an account with that address exists and awaits verification, with a
\* challenge stored; the compensating delete of a request whose email failed
\* does not remove it.
C28_DeliveredCodeHasAccount ==
    (AllRegistrations /\ AllDone)
        => \A r \in Requests :
              inflight[r].status = 200
                  => /\ get_user_by_email(inflight[r].arg[2]) # NoUser
                     /\ ~get_user_by_email(inflight[r].arg[2]).email_verified
                     /\ get_user_by_email(inflight[r].arg[2]).verification_code_hash # NoHash

----------------------------------------------------------------------------
(* /auth/password-reset-confirm handled at the same time *)

\* a verified account whose password reset email has been delivered
AccountWithResetToken(rtok) ==
    IssueResetToken(ActivateUser(NewUser(1, "alice", "alice@example.com", "Str0ng!Pass",
                                         "111111", 0)), rtok, 0)

InitResets ==
    /\ now = 0
    /\ \E rtok \in ResetTokens : users = 1 :> AccountWithResetToken(rtok)
    /\ nextId = 2
    /\ issued = {}
    /\ rotated = {}
    /\ consec = [i \in Ids |-> 0]
    /\ verifiedOnce = {1}
    /\ last = NoRequest
    /\ call = NoCall
    /\ inflight = [r \in Requests |-> NotArrived]

\* confirm_password_reset up to the password strength check: the row is loaded
\* and the token compared in the handler
ConfirmLoad(r, email, rtok, new_password) ==
    LET u == get_user_by_email(email)
        c == confirm_reset_checks(u, rtok, new_password, now)
        req == [op |-> "password-reset-confirm", pc |-> "commit",
                arg |-> <<email, rtok, new_password>>, row |-> u, status |-> 0,
                code |-> "", at |-> now]
    IN
    /\ inflight[r].pc = "start"
    /\ inflight[r].op = "none"
    /\ inflight' = [inflight EXCEPT ![r] = IF c[1] = 200 THEN req
                                           ELSE [req EXCEPT !.pc = "done",
                                                            !.status = c[1],
                                                            !.code = c[2]]]
    /\ UNCHANGED <<now, users, nextId, issued, rotated, consec, verifiedOnce, last, call>>

\* the five assignments and db.commit(): the UPDATE names the row by its id
\* alone; the salted hash is a new value in every request
ConfirmCommit(r) ==
    LET loaded == inflight[r].row
        changed == ResetPassword(loaded, inflight[r].arg[3])
    IN
    /\ inflight[r].op = "password-reset-confirm"
    /\ inflight[r].pc = "commit"
    /\ users' = [users EXCEPT ![loaded.id] =
                    [Flush(@, loaded, changed) EXCEPT
                        !.hashed_password = changed.hashed_password]]
    /\ consec' = [consec EXCEPT ![loaded.id] = 0]
    /\ inflight' = Answered(r, 200, "PASSWORD_RESET_SUCCESS")
    /\ UNCHANGED <<now, nextId, issued, rotated, verifiedOnce, last, call>>

DoConfirmLoad ==
    \E r \in Requests, e \in Emails, rtok \in ResetTokens, p \in Passwords :
        ConfirmLoad(r, e, rtok, p)
DoConfirmCommit == \E r \in Requests : ConfirmCommit(r)
DoTickResets == Tick /\ last = NoRequest

\* confirmations of the reset of one account, handled at the same time
NextResets ==
    \/ DoConfirmLoad
    \/ DoConfirmCommit
    \/ DoTickResets

SpecResets == InitResets /\ [][NextResets]_vars

\* C29 (a reset token changes the password once): of two
\* /auth/password-reset-confirm requests that present the same token, at most
\* one is answered PASSWORD_RESET_SUCCESS.
C29_ResetTokenUsedOnce ==
    \A r1, r2 \in Requests :
        (/\ r1 # r2
         /\ inflight[r1].op = "password-reset-confirm"
         /\ inflight[r2].op = "password-reset-confirm"
         /\ inflight[r1].arg[2] = inflight[r2].arg[2]
         /\ inflight[r1].status = 200)
            => inflight[r2].status # 200

----------------------------------------------------------------------------
(* The password of a registration *)

\* POST /auth/register, with the password of the request kept when the request
\* is answered 200
RegisterNoted(username, email, password, code, mailOk) ==
    /\ last = NoRequest
    /\ Register(username, email, password, code, mailOk)
    /\ call' = IF last'.status = 200
               THEN [fn |-> "registered", email |-> email, password |-> password]
               ELSE call
    /\ UNCHANGED inflight

DoRegisterNoted ==
    \E un \in Usernames, e \in Emails, p \in Passwords, c \in Codes, mailOk \in BOOLEAN :
        RegisterNoted(un, e, p, c, mailOk)

\* registration, verification and login of one email address
NextRegisterPassword ==
    \/ ReturnResponse
    \/ DoTick
    \/ DoRegisterNoted
    \/ DoVerifyEmail
    \/ DoLogin

SpecRegisterPassword == Init /\ [][NextRegisterPassword]_vars

\* C22 (the password of the latest registration): after a successful
\* /auth/verify-email the password that logs in to the account is the one of the
\* most recent successful /auth/register for that email, also when that request
\* went down the resend path for a still unverified account.
C22_LatestPasswordInForce ==
    (last.op = "verify-email" /\ last.status = 200
            /\ call.fn = "registered" /\ call.email = last.email)
        => \A p \in Passwords :
              authenticate_user(Post, p, last.at).result = "user" <=> p = call.password

----------------------------------------------------------------------------
(* Profile router (routers/profile.py): change-email and change-username *)

\* The addresses and names of the model are lower-case and hold no LIKE
\* wildcard, so .lower() and ilike compare them as they are.

\* the access_token cookies a client can present
AccessInputs == {[type |-> "absent"]} \cup {j[1] : j \in issued}

\* the checks of change_email on the row of the current user
change_email_checks(u, new_email, password) ==
    IF u = NoUser THEN <<401, "INVALID_CREDENTIALS">>
    ELSE IF ~verify_password(password, u.hashed_password)
         THEN <<400, "INVALID_CURRENT_PASSWORD">>
    ELSE IF ~is_email_valid(new_email) THEN <<400, "INVALID_EMAIL_FORMAT">>
    ELSE IF new_email = u.email THEN <<400, "SAME_EMAIL">>
    ELSE IF \E i \in DOMAIN users : users[i].email = new_email /\ i # u.id
         THEN <<400, "EMAIL_EXISTS">>
    ELSE <<200, "EMAIL_CHANGED">>

\* the assignments of change_email
ChangedEmail(u, new_email) ==
    [u EXCEPT !.email = new_email,
              !.email_verified = FALSE,
              !.verification_token = NoToken,
              !.verification_expires_at = None]

\* PUT /profile/change-email
ChangeEmail(tok, new_email, password) ==
    LET u == get_current_user(tok, now)
        r == change_email_checks(u, new_email, password)
    IN
    IF r[1] = 200 THEN
        /\ users' = Put(ChangedEmail(u, new_email))
        /\ last' = Respond("change-email", new_email, password, 200, r[2], u, NoCookies)
        /\ UNCHANGED <<now, nextId, issued, rotated, consec, verifiedOnce>>
    ELSE
        /\ last' = Respond("change-email", new_email, password, r[1], r[2], u, NoCookies)
        /\ UNCHANGED <<now, users, nextId, issued, rotated, consec, verifiedOnce>>

\* the checks of change_username on the row of the current user; the names of
\* the model all match ^[a-zA-Z0-9_-]+$ except the ones that are addresses
change_username_checks(u, new_username, password) ==
    IF u = NoUser THEN <<401, "INVALID_CREDENTIALS">>
    ELSE IF ~verify_password(password, u.hashed_password)
         THEN <<400, "INVALID_CURRENT_PASSWORD">>
    ELSE IF new_username = u.username THEN <<400, "SAME_USERNAME">>
    ELSE IF \E i \in DOMAIN users : users[i].username = new_username /\ i # u.id
         THEN <<400, "USERNAME_EXISTS">>
    ELSE IF new_username \in Emails \cup OtherEmails THEN <<400, "INVALID_USERNAME_FORMAT">>
    ELSE <<200, "USERNAME_CHANGED">>

\* PUT /profile/change-username
ChangeUsername(tok, new_username, password) ==
    LET u == get_current_user(tok, now)
        r == change_username_checks(u, new_username, password)
    IN
    IF r[1] = 200 THEN
        /\ users' = Put([u EXCEPT !.username = new_username])
        /\ last' = Respond("change-username", u.email, password, 200, r[2], u, NoCookies)
        /\ UNCHANGED <<now, nextId, issued, rotated, consec, verifiedOnce>>
    ELSE
        /\ last' = Respond("change-username", "", password, r[1], r[2], u, NoCookies)
        /\ UNCHANGED <<now, users, nextId, issued, rotated, consec, verifiedOnce>>

\* passwords that pass is_password_strong
StrongPasswords == {p \in Passwords : is_password_strong(p)}

DoChangeEmail ==
    Idle /\ \E tok \in AccessInputs, e \in Emails \cup OtherEmails, p \in StrongPasswords :
                ChangeEmail(tok, e, p)
DoChangeUsername ==
    Idle /\ \E tok \in AccessInputs, un \in Usernames \cup OtherUsernames, p \in StrongPasswords :
                ChangeUsername(tok, un, p)
DoDeleteOwnAccount ==
    Idle /\ \E tok \in AccessInputs, p \in StrongPasswords : DeleteAccount(tok, p)

\* two people who register, verify, and change or delete their accounts
NextIdentity ==
    \/ ReturnResponse
    \/ ClientKeepsCookies
    \/ DoRegisterAmong
    \/ DoVerifyEmailAmong
    \/ DoChangeEmail
    \/ DoChangeUsername
    \/ DoDeleteOwnAccount

SpecIdentity == Init /\ [][NextIdentity]_vars

\* C23 (a token authenticates only its own account): every access token a
\* client holds resolves, through get_current_user, to the account it was issued
\* to or to none; the refresh token of the same cookie pair names that account
\* by id.
C23_TokenResolvesToOwner ==
    \A j \in issued :
        get_current_user(j[1], now) # NoUser
            => ToString(get_current_user(j[1], now).id) = j[2].sub

\* a session that goes on after the account's email was changed
NextReverify ==
    \/ ReturnResponse
    \/ ClientKeepsCookies
    \/ DoRegister
    \/ DoVerifyEmail
    \/ DoLogin
    \/ DoRefreshToken
    \/ DoChangeEmail

SpecReverify == Init /\ [][NextReverify]_vars

\* C24 (tokens only for verified accounts): whenever /auth/verify-email,
\* /auth/login or /auth/refresh sets auth cookies, the account they are for is
\* active and its email is verified at that moment.
C24_TokensOnlyForVerified ==
    (last.op \in {"verify-email", "login", "refresh"} /\ last.cookies # NoCookies)
        => /\ Found
           /\ Post.is_active
           /\ Post.email_verified

----------------------------------------------------------------------------
(* Maintenance tasks (tasks.py) *)

\* the rows the query of cleanup_expired_accounts returns; the comparison is
\* made by the database, on UTC values
ExpiredAccounts(t) ==
    {i \in DOMAIN users :
        /\ ~users[i].email_verified
        /\ users[i].account_expires_at # None
        /\ users[i].account_expires_at < t}

\* cleanup_expired_accounts: db.delete of every row found, one commit
CleanupExpiredAccounts ==
    /\ users' = [i \in (DOMAIN users) \ ExpiredAccounts(now) |-> users[i]]
    /\ last' = Respond("cleanup_expired_accounts", "", "", 0, "", NoUser, NoCookies)
    /\ UNCHANGED <<now, nextId, issued, rotated, consec, verifiedOnce>>

\* cleanup_expired_verification_codes
CleanupExpiredVerificationCodes ==
    /\ users' = [i \in DOMAIN users |->
                    IF users[i].verification_expires_at # None
                          /\ users[i].verification_expires_at < now
                    THEN [users[i] EXCEPT !.verification_code_hash = NoHash,
                                          !.verification_token = NoToken,
                                          !.verification_expires_at = None]
                    ELSE users[i]]
    /\ last' = Respond("cleanup_expired_verification_codes", "", "", 0, "", NoUser, NoCookies)
    /\ UNCHANGED <<now, nextId, issued, rotated, consec, verifiedOnce>>

\* the 24 hours an unverified account is given pass
DayPasses ==
    /\ now <= MaxTime
    /\ now' = now + ACCOUNT_EXPIRE_DAYS * MinutesPerDay + 1
    /\ UNCHANGED <<users, nextId, issued, rotated, consec, verifiedOnce, last, call, inflight>>

DoCleanupExpiredAccounts == Idle /\ CleanupExpiredAccounts
DoCleanupExpiredVerificationCodes == Idle /\ CleanupExpiredVerificationCodes
DoDayPasses == Idle /\ DayPasses
DoResendVerificationAmong ==
    Idle /\ \E e \in Emails \cup OtherEmails, c \in Codes, mailOk \in BOOLEAN :
                ResendVerification(e, c, mailOk)
\* the holder of an account logs in with its password
DoLoginOwner ==
    Idle /\ \E e \in Emails \cup OtherEmails, p \in Passwords :
                /\ get_user_by_email(e) # NoUser
                /\ verify_password(p, get_user_by_email(e).hashed_password)
                /\ Login(e, p)

\* the life of an account under the hourly maintenance run
NextSweep ==
    \/ ReturnResponse
    \/ ClientKeepsCookies
    \/ DoRegister
    \/ DoVerifyEmailAmong
    \/ DoLoginOwner
    \/ DoResendVerificationAmong
    \/ DoChangeEmail
    \/ DoDayPasses
    \/ DoCleanupExpiredAccounts
    \/ DoCleanupExpiredVerificationCodes

SpecSweep == Init /\ [][NextSweep]_vars

\* the accounts that /auth/verify-email has once accepted a code for
OnceVerified == {v[1] : v \in verifiedOnce}

\* C25 (the sweep spares verified accounts): cleanup_expired_accounts deletes no
\* account that has once completed /auth/verify-email, whatever was done to the
\* account since.
C25_SweepSparesVerified ==
    last.op = "cleanup_expired_accounts"
        => \A i \in last.ids : i \in OnceVerified => i \in DOMAIN users

\* the case of C25 in which the holder has logged in after the 24 hours: the
\* sweep deletes no once-verified account while a cookie pair issued after
\* them is held
C25_SweepSparesLoggedIn ==
    ~(/\ last.op = "cleanup_expired_accounts"
      /\ \E i \in last.ids :
            /\ i \in OnceVerified
            /\ i \notin DOMAIN users
      /\ \E j \in issued : j[1].iat > 0)

----------------------------------------------------------------------------
(* Likes of comments (routers/comments.py) *)

\* the comments of one author, user 1, and the users who rate them: the author
\* and MaxUsers others
Comments == 1..MaxComments
Author == 1
Raters == 1..(MaxUsers + 1)

\* a comment_likes row of a rater on a comment: none, a like or a dislike
\* (uq_comment_user_like: one row per comment and user)
Ratings == {"none", "like", "dislike"}
RatingOf(is_like) == IF is_like THEN "like" ELSE "dislike"

\* ranks as create_default_ranks lays them out: the lowest asks for nothing,
\* the others for likes
LikeRanks ==
    [i \in RankIds |-> [level |-> i, comments |-> 0,
                        likes |-> IF i = 1 THEN 0 ELSE MaxLikes, is_active |-> TRUE]]

InitLikes ==
    /\ now = 0
    /\ users = << >>
    /\ nextId = 1
    /\ issued = {}
    /\ rotated = {}
    /\ consec = [i \in Ids |-> 0]
    /\ verifiedOnce = {}
    /\ last = NoRequest
    /\ inflight = NoRequests
    /\ call = [fn |-> "likes",
               ranks |-> LikeRanks,
               user |-> [rank_id |-> 1, total_comments |-> MaxComments,
                         total_likes_received |-> 0],
               likes |-> [c \in Comments |-> [u \in Raters |-> "none"]],
               status |-> 0,
               action |-> "none"]

\* what the handler does to the comment_likes row it found
like_action(existing, is_like) ==
    IF existing = "none" THEN "added"
    ELSE IF existing = RatingOf(is_like) THEN "removed"
    ELSE "updated"

\* update_user_stats(comment.user_id, db, "like_received") where like_comment
\* calls it: on a like added or updated
LikedAuthor(u, existing, is_like) ==
    IF is_like /\ like_action(existing, is_like) \in {"added", "updated"}
    THEN [u EXCEPT !.total_likes_received = @ + 1]
    ELSE u

\* POST /comments/{comment_id}/like by the user rater
LikeComment(rater, comment_id, is_like) ==
    /\ call.fn = "likes"
    /\ IF comment_id \notin Comments
       THEN call' = [call EXCEPT !.status = 404, !.action = "none"]
       ELSE IF rater = Author
       THEN call' = [call EXCEPT !.status = 400, !.action = "none"]
       ELSE LET existing == call.likes[comment_id][rater]
                action == like_action(existing, is_like)
                row == IF action = "removed" THEN "none" ELSE RatingOf(is_like)
                counted == LikedAuthor(call.user, existing, is_like)
            IN
            /\ counted.total_likes_received <= MaxReceived
            /\ \E order \in SortedOrders(call.ranks) :
                   call' = [call EXCEPT
                       !.likes[comment_id][rater] = row,
                       !.user = IF counted = call.user THEN call.user
                                ELSE auto_check_rank_upgrade(order, call.ranks, counted).user,
                       !.status = 200,
                       !.action = action]
    /\ UNCHANGED <<now, users, nextId, issued, rotated, consec, verifiedOnce, last, inflight>>

DoLikeComment ==
    \E rater \in Raters, c \in 1..(MaxComments + 1), is_like \in BOOLEAN :
        LikeComment(rater, c, is_like)

NextLikes == DoLikeComment

SpecLikes == InitLikes /\ [][NextLikes]_vars

\* the like rows on the author's comments
LikeRows == {<<c, u>> \in Comments \X Raters : call.likes[c][u] = "like"}

\* C30 (the likes counter is the number of likes): the author's
\* total_likes_received equals the number of comment_likes rows with
\* is_like = true on the author's comments, after any likes, dislikes and
\* repeated (toggling) requests of the other users.
C30_CounterIsNumberOfLikes ==
    call.fn = "likes" => call.user.total_likes_received = Cardinality(LikeRows)

====
